---- MODULE Spec2Model ----
(***************************************************************************)
(* A model of src/app.py: the Google Maps scraping pipeline                *)
(* (scrape_businesses_core), its query parser, its scroll/collect loop,    *)
(* the per-listing extraction loop and the BusinessList deduplicator.      *)
(*                                                                         *)
(* Strings are sequences of one-character strings, so that split, strip,   *)
(* startswith and concatenation are computed and not assumed.              *)
(***************************************************************************)
EXTENDS Integers, Sequences, FiniteSets

VARIABLES
    pc,                 \* position in scrape_businesses_core / the harness
    query,              \* argument query
    total,              \* argument total
    category,           \* local category (line 115)
    location,           \* local location (line 116)
    hashseed,           \* the interpreter's string-hash seed (fixed per process)
    loops,              \* iterations of the scroll loop begun so far
    previously_counted, \* local previously_counted
    count_now,          \* local count_now
    hist,               \* the last recounts, newest last (observation only)
    anchors,            \* local anchors: the snapshot of anchor handles
    listings,           \* local listings
    idx,                \* ordinal of the listing being processed
    business,           \* local business: the record being assembled
    business_list,      \* BusinessList.business_list
    seen,               \* BusinessList._seen_businesses
    offered,            \* the records handed to add_business so far, in order (observation only)
    origin,             \* origin[i]: position in offered of business_list[i] (observation only)
    attempts,           \* the listings activated so far, in order (observation only)
    skipped,            \* the listings given up by the handler of line 203 (observation only)
    email,              \* local email of scrape_email_from_website
    open_pages,         \* email-discovery pages currently open
    close_raised,       \* calls of page.close() that raised (observation only)
    email_calls,        \* calls of scrape_email_from_website for the listing in hand (observation only)
    view,               \* what the detail view's locators give (listing harness only)
    exported,           \* number of export files written
    outcome,            \* "running", "returned" or "raised"
    error               \* what was raised: "" or the failing step

vars == << pc, query, total, category, location, hashseed, loops,
           previously_counted, count_now, hist, anchors, listings, idx,
           business, business_list, seen, offered, origin, attempts, skipped,
           email, open_pages, close_raised, email_calls, view,
           exported, outcome, error >>

----------------------------------------------------------------------------
(* Bounds of the model *)

MaxChunks == 5      \* a parsed query is a concatenation of at most MaxChunks chunks
MaxAdds == 2        \* add_business calls made on one BusinessList by the dedup harness
MaxSeed == 1        \* hash seeds 0..MaxSeed
HashModulus == 3    \* width of the modelled hash value (2^64 in CPython)
MaxTotal == 2       \* the pipeline is run with total in 1..MaxTotal
MaxAnchors == 2     \* the page shows at most MaxAnchors listing anchors
HistLen == 4        \* recounts remembered by the scroll-loop harness

----------------------------------------------------------------------------
(* Strings *)

None == << "<None>" >>          \* Python's None, distinct from every string
Empty == << >>

Truthy(s) == s # None /\ s # Empty

Alphabet == << " ", ".", ":", "/", "a", "b", "c", "d", "e", "h", "i", "m",
               "n", "o", "p", "s", "t", "w", "1", "2", "@", "A", "B", "L",
               "P", "k", "l", "r", "u", "<None>", "C" >>

Ord(c) == CHOOSE i \in 1..Len(Alphabet) : Alphabet[i] = c

RECURSIVE Concat(_)
Concat(ss) == IF ss = << >> THEN << >> ELSE Head(ss) \o Concat(Tail(ss))

\* s[i:] in Python, with i counted from 1
From(s, i) == SubSeq(s, i, Len(s))

IsAt(s, sep, i) == /\ i + Len(sep) - 1 <= Len(s)
                   /\ SubSeq(s, i, i + Len(sep) - 1) = sep

\* str.find: the leftmost position of sep in s, 0 when there is none
Find(s, sep) ==
    IF \E i \in 1..Len(s) : IsAt(s, sep, i)
    THEN CHOOSE i \in 1..Len(s) :
            IsAt(s, sep, i) /\ \A j \in 1..(i - 1) : ~IsAt(s, sep, j)
    ELSE 0

\* str.split(sep): every non-overlapping occurrence, scanning from the left
RECURSIVE Split(_, _)
Split(s, sep) ==
    LET i == Find(s, sep) IN
    IF i = 0 THEN << s >>
    ELSE << SubSeq(s, 1, i - 1) >> \o Split(From(s, i + Len(sep)), sep)

RECURSIVE LStrip(_)
LStrip(s) == IF s # << >> /\ Head(s) = " " THEN LStrip(Tail(s)) ELSE s

RECURSIVE RStrip(_)
RStrip(s) == IF s # << >> /\ s[Len(s)] = " "
             THEN RStrip(SubSeq(s, 1, Len(s) - 1)) ELSE s

\* str.strip()
Strip(s) == RStrip(LStrip(s))

StartsWith(s, p) == Len(s) >= Len(p) /\ SubSeq(s, 1, Len(p)) = p

InSep == << " ", "i", "n", " " >>

----------------------------------------------------------------------------
(* Query Parser: scrape_businesses_core, lines 114-116 *)

ParseParts(q) == LET raw == Split(q, InSep) IN
                 [i \in 1..Len(raw) |-> Strip(raw[i])]

ParseCategory(q) == LET parts == ParseParts(q) IN
                    IF parts # << >> THEN parts[1] ELSE q

ParseLocation(q) == LET parts == ParseParts(q) IN
                    IF Len(parts) > 1 THEN parts[2] ELSE Empty

----------------------------------------------------------------------------
(* Data model: Business, lines 16-35 *)

\* Business(): every field defaults to None
NewBusiness == [ name |-> None, address |-> None, domain |-> None,
                 website |-> None, phone_number |-> None, email |-> None,
                 category |-> None, location |-> None ]

DomainTag == << "d", "o", "m", "a", "i", "n", ":" >>
WebsiteTag == << "w", "e", "b", "s", "i", "t", "e", ":" >>
PhoneTag == << "p", "h", "o", "n", "e", ":" >>

\* a variant of HashFields that also reads the address
HashFieldsWithAddress(b) ==
    << (IF Truthy(b.name) THEN b.name ELSE Empty) >>
    \o (IF Truthy(b.domain) THEN << DomainTag \o b.domain >> ELSE << >>)
    \o (IF Truthy(b.website) THEN << WebsiteTag \o b.website >> ELSE << >>)
    \o (IF Truthy(b.phone_number) THEN << PhoneTag \o b.phone_number >> ELSE << >>)
    \o (IF Truthy(b.address) THEN << b.address >> ELSE << >>)

\* hash_fields of Business.__hash__, lines 28-34
HashFields(b) ==
    << (IF Truthy(b.name) THEN b.name ELSE Empty) >>
    \o (IF Truthy(b.domain) THEN << DomainTag \o b.domain >> ELSE << >>)
    \o (IF Truthy(b.website) THEN << WebsiteTag \o b.website >> ELSE << >>)
    \o (IF Truthy(b.phone_number) THEN << PhoneTag \o b.phone_number >> ELSE << >>)

\* The built-in hash of a string: a function of the seed and the characters,
\* of bounded width.
RECURSIVE StrHash(_, _, _)
StrHash(seed, s, acc) ==
    IF s = << >> THEN acc
    ELSE StrHash(seed, Tail(s), (acc * 5 + Ord(Head(s)) + seed) % HashModulus)

\* The built-in hash of a tuple of strings: combines the elements' hashes in
\* order, of bounded width.
RECURSIVE TupleHash(_, _, _)
TupleHash(seed, t, acc) ==
    IF t = << >> THEN acc
    ELSE TupleHash(seed, Tail(t),
                   (acc * 7 + StrHash(seed, Head(t), seed) + 1) % HashModulus)

\* hash(tuple(hash_fields)), line 35
PyHash(seed, t) == TupleHash(seed, t, Len(t) % HashModulus)

\* Business.__hash__
BusinessHash(seed, b) == PyHash(seed, HashFields(b))

----------------------------------------------------------------------------
(* BusinessList.add_business, lines 46-50 *)

\* a variant of IsNew that never finds the hash
IsNewAlways(h, seenset) == TRUE

\* the membership test of line 48
IsNew(h, seenset) == h \notin seenset

\* a variant of AddBusiness that puts the record in front
AddBusinessInFront(b, n) ==
    /\ offered' = Append(offered, [rec |-> b, ord |-> n])
    /\ IF BusinessHash(hashseed, b) \notin seen
       THEN /\ business_list' = << b >> \o business_list
            /\ seen' = seen \cup { BusinessHash(hashseed, b) }
            /\ origin' = << n >> \o origin
       ELSE UNCHANGED << business_list, seen, origin >>

\* a variant of AddBusiness that appends without marking the hash as seen
AddBusinessUnmarked(b, n) ==
    /\ offered' = Append(offered, [rec |-> b, ord |-> n])
    /\ IF IsNew(BusinessHash(hashseed, b), seen)
       THEN /\ business_list' = Append(business_list, b)
            /\ origin' = Append(origin, n)
            /\ UNCHANGED seen
       ELSE UNCHANGED << business_list, seen, origin >>

\* the whole method, on the list and the set it changes; n is the ordinal
\* of the call (of the listing, in the pipeline) that offers the record
AddBusiness(b, n) ==
    LET business_hash == BusinessHash(hashseed, b) IN
    /\ offered' = Append(offered, [rec |-> b, ord |-> n])
    /\ IF IsNew(business_hash, seen)
       THEN /\ business_list' = Append(business_list, b)
            /\ seen' = seen \cup { business_hash }
            /\ origin' = Append(origin, n)
       ELSE UNCHANGED << business_list, seen, origin >>

----------------------------------------------------------------------------
(* Values the browser can hand to the pipeline *)

StrA == << "A" >>
StrAC == << "a", ".", "c" >>
StrPhone == << "1" >>
StrAddr == << "1", " ", "L", "a" >>
StrMail == << "m", "@", "a", ".", "c" >>
HttpsWww == << "h", "t", "t", "p", "s", ":", "/", "/", "w", "w", "w", "." >>
Http == << "h", "t", "t", "p" >>

QueryAinB == << "a", " ", "i", "n", " ", "b" >>

PipelineQueries == { QueryAinB }

\* what a locator gives: the access raises, nothing matches, or an element
\* with an inner text
Raises == [kind |-> "raise", text |-> Empty]
NoMatch == [kind |-> "none", text |-> Empty]
Element(t) == [kind |-> "text", text |-> t]
Reads(texts) == { Raises, NoMatch } \cup { Element(t) : t \in texts }

\* no detail view in hand
NoView == << >>

NameTexts == { Empty, StrA, << " ", "A", " " >> }
AddressTexts == { StrAddr }
WebsiteTexts == { StrAC }
PhoneTexts == { StrPhone }
EmailResults == { "raise", "nomatch", "match" }

----------------------------------------------------------------------------
(* _safe_text, lines 77-84 *)

\* a variant of _safe_text without the try: what the element holds comes
\* through even when reading it fails
SafeTextUnguarded(r) == Strip(r.text)

SafeText(r) == IF r.kind = "text" THEN Strip(r.text) ELSE Empty

\* a or b, on strings
Or(a, b) == IF Truthy(a) THEN a ELSE b

----------------------------------------------------------------------------
(* scrape_businesses_core, lines 112-213 *)

max_scroll_loops == 50

Min(a, b) == IF a <= b THEN a ELSE b

\* a variant of Take that keeps the whole list
TakeAll(s, n) == s

\* s[:n] for n >= 0
Take(s, n) == SubSeq(s, 1, Min(n, Len(s)))

\* an exception leaves scrape_businesses_core
Raise(what) == /\ pc' = "raised"
               /\ outcome' = "raised"
               /\ error' = what

\* lines 114-116
ParseQuery ==
    /\ pc = "parse"
    /\ category' = ParseCategory(query)
    /\ location' = ParseLocation(query)
    /\ pc' = "launch"
    /\ UNCHANGED << skipped, view, close_raised, email_calls, query, total, hashseed, loops, previously_counted,
                    count_now, hist, anchors, listings, idx, business,
                    business_list, seen, offered, origin, attempts, email,
                    open_pages, exported, outcome, error >>

\* lines 118-122: start the browser, open the page
Launch(ok) ==
    /\ pc = "launch"
    /\ IF ok THEN pc' = "goto" /\ UNCHANGED << outcome, error >>
       ELSE Raise("launch")
    /\ UNCHANGED << skipped, view, close_raised, email_calls, query, total, category, location, hashseed, loops,
                    previously_counted, count_now, hist, anchors, listings,
                    idx, business, business_list, seen, offered, origin,
                    attempts, email, open_pages, exported >>

\* line 125
GotoMaps(ok) ==
    /\ pc = "goto"
    /\ IF ok THEN pc' = "search" /\ UNCHANGED << outcome, error >>
       ELSE Raise("goto")
    /\ UNCHANGED << skipped, view, close_raised, email_calls, query, total, category, location, hashseed, loops,
                    previously_counted, count_now, hist, anchors, listings,
                    idx, business, business_list, seen, offered, origin,
                    attempts, email, open_pages, exported >>

\* lines 128-132
Search(ok) ==
    /\ pc = "search"
    /\ IF ok THEN pc' = "hover" /\ UNCHANGED << outcome, error >>
       ELSE Raise("search")
    /\ UNCHANGED << skipped, view, close_raised, email_calls, query, total, category, location, hashseed, loops,
                    previously_counted, count_now, hist, anchors, listings,
                    idx, business, business_list, seen, offered, origin,
                    attempts, email, open_pages, exported >>

\* a variant of Hover without the try of lines 135-138
HoverUncaught(ok) ==
    /\ pc = "hover"
    /\ previously_counted' = 0
    /\ loops' = 0
    /\ IF ok THEN pc' = "scroll" /\ UNCHANGED << outcome, error >>
       ELSE Raise("hover")
    /\ UNCHANGED << skipped, view, close_raised, email_calls, query, total, category, location, hashseed,
                    count_now, hist, anchors, listings, idx, business,
                    business_list, seen, offered, origin, attempts, email,
                    open_pages, exported >>

\* lines 135-142: the nudge, whose failure is passed over, and the loop's
\* initialisation
Hover(ok) ==
    /\ pc = "hover"
    /\ pc' = "scroll"
    /\ previously_counted' = 0
    /\ loops' = 0
    /\ UNCHANGED << outcome, error >>
    /\ UNCHANGED << skipped, view, close_raised, email_calls, query, total, category, location, hashseed,
                    count_now, hist, anchors, listings, idx, business,
                    business_list, seen, offered, origin, attempts, email,
                    open_pages, exported >>

\* a variant of LoopBreaks whose first test is strict
LoopBreaksStrict(c, tot, prev) == c > tot \/ c = prev

\* a variant of LoopBreaks without the stall test
LoopBreaksNoStall(c, tot, prev) == c >= tot

\* the two breaks of lines 147-150
LoopBreaks(c, tot, prev) == c >= tot \/ c = prev

\* a variant of ScrollIteration whose loop has no upper limit
ScrollIterationUncapped(c, r) ==
    /\ pc = "scroll"
    /\ loops' = loops + 1
    /\ IF r # "ok"
       THEN /\ Raise(r)
            /\ UNCHANGED << count_now, previously_counted >>
       ELSE /\ count_now' = c
            /\ IF LoopBreaks(c, total, previously_counted)
               THEN /\ pc' = "snapshot"
                    /\ UNCHANGED previously_counted
               ELSE /\ previously_counted' = c
                    /\ pc' = "scroll"
            /\ UNCHANGED << outcome, error >>
    /\ UNCHANGED << skipped, view, close_raised, email_calls, query, total, category, location, hashseed, anchors,
                    listings, idx, business, business_list, seen, offered,
                    origin, attempts, email, open_pages, exported >>

\* lines 143-151: one iteration of the scroll loop; r tells whether the wheel
\* or the recount raises, c is the recount
ScrollIteration(c, r) ==
    /\ pc = "scroll"
    /\ loops < max_scroll_loops
    /\ loops' = loops + 1
    /\ IF r # "ok"
       THEN /\ Raise(r)
            /\ UNCHANGED << count_now, previously_counted >>
       ELSE /\ count_now' = c
            /\ IF LoopBreaks(c, total, previously_counted)
               THEN /\ pc' = "snapshot"
                    /\ UNCHANGED previously_counted
               ELSE /\ previously_counted' = c
                    /\ pc' = IF loops + 1 < max_scroll_loops
                             THEN "scroll" ELSE "snapshot"
            /\ UNCHANGED << outcome, error >>
    /\ UNCHANGED << skipped, view, close_raised, email_calls, query, total, category, location, hashseed, anchors,
                    listings, idx, business, business_list, seen, offered,
                    origin, attempts, email, open_pages, exported >>

\* what the page can show when the anchors are snapshotted: handles 1..n
AnchorSnapshots == { [i \in 1..n |-> i] : n \in 0..MaxAnchors }

\* a variant of Snapshot without the check of lines 154-156
SnapshotUnchecked(snap, ok) ==
    /\ pc = "snapshot"
    /\ loops' = 0
    /\ previously_counted' = 0
    /\ count_now' = 0
    /\ IF ~ok
       THEN /\ Raise("snapshot")
            /\ UNCHANGED << anchors, listings, idx, business_list, seen >>
       ELSE /\ anchors' = snap
            /\ listings' = Take(snap, total)
            /\ business_list' = << >>
            /\ seen' = { }
            /\ idx' = 1
            /\ pc' = IF snap = << >> THEN "export" ELSE "click"
            /\ UNCHANGED << outcome, error >>
    /\ UNCHANGED << skipped, view, close_raised, email_calls, query, total, category, location, hashseed,
                    hist, business, offered, origin, attempts, email,
                    open_pages, exported >>

\* lines 153-159: the snapshot, the fatal check, the truncation and the new
\* BusinessList. The scroll loop's locals are not read after line 151 and
\* are cleared here.
Snapshot(snap, ok) ==
    /\ pc = "snapshot"
    /\ loops' = 0
    /\ previously_counted' = 0
    /\ count_now' = 0
    /\ IF ~ok
       THEN /\ Raise("snapshot")
            /\ UNCHANGED << anchors, listings, idx, business_list, seen >>
       ELSE /\ anchors' = snap
            /\ IF snap = << >>
               THEN /\ Raise("NoListings")
                    /\ UNCHANGED << listings, idx, business_list, seen >>
               ELSE /\ listings' = Take(snap, total)
                    /\ business_list' = << >>
                    /\ seen' = { }
                    /\ idx' = 1
                    /\ pc' = "click"
                    /\ UNCHANGED << outcome, error >>
    /\ UNCHANGED << skipped, view, close_raised, email_calls, query, total, category, location, hashseed, hist,
                    business, offered, origin, attempts, email, open_pages,
                    exported >>

\* the for statement of line 168 takes the next listing, or the loop ends
\* a variant of NextListing that leaves the loop after one listing
NextListingOnce == /\ idx' = idx + 1
                   /\ pc' = "export"
                   /\ email_calls' = 0

NextListing == /\ idx' = idx + 1
               /\ pc' = IF idx + 1 <= Len(listings) THEN "click" ELSE "export"
               /\ email_calls' = 0

\* a variant of SkipListing in which the exception ends the loop
SkipAndStop == /\ idx' = idx
               /\ pc' = "raised"
               /\ email_calls' = 0
               /\ skipped' = Append(skipped, listings[idx])

\* the handler of lines 203-204: the listing is given up
SkipListing == /\ NextListing
               /\ skipped' = Append(skipped, listings[idx])

\* lines 170-173: activate the listing, start a record
Click(ok) ==
    /\ pc = "click"
    /\ attempts' = Append(attempts, listings[idx])
    /\ IF ok
       THEN /\ business' = NewBusiness
            /\ pc' = "name"
            /\ UNCHANGED << idx, skipped, email_calls >>
       ELSE /\ SkipListing
            /\ UNCHANGED business
    /\ UNCHANGED close_raised
    /\ UNCHANGED << view, query, total, category, location, hashseed, loops,
                    previously_counted, count_now, hist, anchors, listings,
                    business_list, seen, offered, origin, email, open_pages,
                    exported, outcome, error >>

\* a variant of NameOf that asks the generic heading first
NameOfGenericFirst(r1, r2, r3) ==
    Or(SafeText(r3), Or(SafeText(r2), SafeText(r1)))

\* line 175
NameOf(r1, r2, r3) == Or(SafeText(r1), Or(SafeText(r2), SafeText(r3)))

\* line 185
NormalizeWebsite(website_text) ==
    IF StartsWith(website_text, Http) THEN website_text
    ELSE HttpsWww \o website_text

\* lines 181-187, on the record
WithWebsite(b, website_text) ==
    IF Truthy(website_text)
    THEN [b EXCEPT !.domain = website_text,
                   !.website = NormalizeWebsite(website_text)]
    ELSE [b EXCEPT !.website = Empty]

\* lines 174-176: the name, by the chain of three locators
ExtractName(r1, r2, r3) ==
    /\ pc = "name"
    /\ business' = [business EXCEPT !.name = NameOf(r1, r2, r3)]
    /\ pc' = "address"
    /\ UNCHANGED << skipped, view, close_raised, email_calls, query, total, category, location, hashseed, loops,
                    previously_counted, count_now, hist, anchors, listings,
                    idx, business_list, seen, offered, origin, attempts,
                    email, open_pages, exported, outcome, error >>

\* lines 178-179
ExtractAddress(r) ==
    /\ pc = "address"
    /\ business' = [business EXCEPT !.address = SafeText(r)]
    /\ pc' = "website"
    /\ UNCHANGED << skipped, view, close_raised, email_calls, query, total, category, location, hashseed, loops,
                    previously_counted, count_now, hist, anchors, listings,
                    idx, business_list, seen, offered, origin, attempts,
                    email, open_pages, exported, outcome, error >>

\* lines 181-187
ExtractWebsite(r) ==
    /\ pc = "website"
    /\ business' = WithWebsite(business, SafeText(r))
    /\ pc' = "phone"
    /\ UNCHANGED << skipped, view, close_raised, email_calls, query, total, category, location, hashseed, loops,
                    previously_counted, count_now, hist, anchors, listings,
                    idx, business_list, seen, offered, origin, attempts,
                    email, open_pages, exported, outcome, error >>

\* a variant of ExtractPhone that looks for the email whether or not there
\* is a website
ExtractPhoneThenEmail(r) ==
    /\ pc = "phone"
    /\ business' = [business EXCEPT !.phone_number = SafeText(r)]
    /\ pc' = "email_open"
    /\ UNCHANGED << skipped, view, close_raised, email_calls, query, total, category, location, hashseed, loops,
                    previously_counted, count_now, hist, anchors, listings,
                    idx, business_list, seen, offered, origin, attempts,
                    email, open_pages, exported, outcome, error >>

\* lines 189-196: the phone, then the email is looked for only when there is
\* a website
ExtractPhone(r) ==
    /\ pc = "phone"
    /\ LET b == [business EXCEPT !.phone_number = SafeText(r)]
       IN IF Truthy(b.website)
          THEN /\ business' = b
               /\ pc' = "email_open"
          ELSE /\ business' = [b EXCEPT !.email = Empty]
               /\ pc' = "add"
    /\ UNCHANGED << skipped, view, close_raised, email_calls, query, total, category, location, hashseed, loops,
                    previously_counted, count_now, hist, anchors, listings,
                    idx, business_list, seen, offered, origin, attempts,
                    email, open_pages, exported, outcome, error >>

\* lines 88-89: scrape_email_from_website opens its page, outside its try
EmailOpen(ok) ==
    /\ pc = "email_open"
    /\ email' = Empty
    /\ IF ok
       THEN /\ open_pages' = open_pages + 1
            /\ email_calls' = email_calls + 1
            /\ pc' = "email_body"
            /\ UNCHANGED << idx, skipped >>
       ELSE /\ SkipListing
            /\ UNCHANGED open_pages
    /\ UNCHANGED close_raised
    /\ UNCHANGED << view, query, total, category, location, hashseed, loops,
                    previously_counted, count_now, hist, anchors, listings,
                    business, business_list, seen, offered, origin,
                    attempts, exported, outcome, error >>

\* a variant of EmailBody without the finally clause: an exception in the
\* try block is swallowed and the call returns with its page left open
EmailBodyNoFinally(r) ==
    /\ pc = "email_body"
    /\ email' = IF r = "match" THEN StrMail ELSE email
    /\ IF r = "raise"
       THEN /\ business' = [business EXCEPT !.email = Empty]
            /\ pc' = "add"
       ELSE /\ pc' = "email_close"
            /\ UNCHANGED business
    /\ UNCHANGED << skipped, view, close_raised, email_calls, query, total, category, location, hashseed, loops,
                    previously_counted, count_now, hist, anchors, listings,
                    idx, business_list, seen, offered, origin,
                    attempts, open_pages, exported, outcome, error >>

\* lines 90-103: the try block; r tells whether a step raises, the markup
\* holds no address, or it holds one
EmailBody(r) ==
    /\ pc = "email_body"
    /\ email' = IF r = "match" THEN StrMail ELSE email
    /\ pc' = "email_close"
    /\ UNCHANGED << skipped, view, close_raised, email_calls, query, total, category, location, hashseed, loops,
                    previously_counted, count_now, hist, anchors, listings,
                    idx, business, business_list, seen, offered, origin,
                    attempts, open_pages, exported, outcome, error >>

\* lines 104-106 and 194: the finally clause closes the page and the email
\* is returned; when close raises, the page may or may not be gone
EmailClose(ok, gone) ==
    /\ pc = "email_close"
    /\ IF ok
       THEN /\ open_pages' = open_pages - 1
            /\ business' = [business EXCEPT !.email = Or(email, Empty)]
            /\ pc' = "add"
            /\ UNCHANGED << idx, skipped, email_calls, close_raised >>
       ELSE /\ open_pages' = IF gone THEN open_pages - 1 ELSE open_pages
            /\ close_raised' = close_raised + 1
            /\ SkipListing
            /\ UNCHANGED business
    /\ UNCHANGED << view, query, total, category, location, hashseed, loops,
                    previously_counted, count_now, hist, anchors, listings,
                    business_list, seen, offered, origin, attempts, email,
                    exported, outcome, error >>

\* lines 198-202: stamp the record and hand it to the BusinessList
Add ==
    /\ pc = "add"
    /\ LET b == [business EXCEPT !.category = category,
                                 !.location = location]
       IN /\ business' = b
          /\ AddBusiness(b, listings[idx])
    /\ NextListing
    /\ UNCHANGED << skipped, view, close_raised, query, total, category, location, hashseed, loops,
                    previously_counted, count_now, hist, anchors, listings,
                    attempts, email, open_pages, exported, outcome, error >>

\* lines 206-213: write the file, close the browser, return the path; the
\* writer may raise. browser.close() (lines 155, 212) is taken to succeed.
Export(ok) ==
    /\ pc = "export"
    /\ IF ok
       THEN /\ exported' = exported + 1
            /\ pc' = "returned"
            /\ outcome' = "returned"
            /\ UNCHANGED error
       ELSE /\ Raise("export")
            /\ UNCHANGED exported
    /\ UNCHANGED << skipped, view, close_raised, email_calls, query, total, category, location, hashseed,
                    loops, previously_counted, count_now, hist, anchors,
                    listings, idx, business, business_list, seen, offered,
                    origin, attempts, email, open_pages >>

----------------------------------------------------------------------------
(* The pipeline: one call of scrape_businesses_core *)

Init ==
    /\ pc = "parse"
    /\ query \in PipelineQueries
    /\ total \in 1..MaxTotal
    /\ hashseed \in 0..MaxSeed
    /\ category = None
    /\ location = None
    /\ loops = 0
    /\ previously_counted = 0
    /\ count_now = 0
    /\ hist = << >>
    /\ anchors = << >>
    /\ listings = << >>
    /\ idx = 0
    /\ business = NewBusiness
    /\ business_list = << >>
    /\ seen = { }
    /\ offered = << >>
    /\ origin = << >>
    /\ attempts = << >>
    /\ skipped = << >>
    /\ email = Empty
    /\ open_pages = 0
    /\ close_raised = 0
    /\ email_calls = 0
    /\ view = NoView
    /\ exported = 0
    /\ outcome = "running"
    /\ error = ""

Next ==
    \/ ParseQuery
    \/ \E ok \in BOOLEAN : Launch(ok)
    \/ \E ok \in BOOLEAN : GotoMaps(ok)
    \/ \E ok \in BOOLEAN : Search(ok)
    \/ \E ok \in BOOLEAN : Hover(ok)
    \/ \E c \in 0..MaxAnchors, r \in { "ok", "wheel", "count" } :
          ScrollIteration(c, r) /\ UNCHANGED hist
    \/ \E snap \in AnchorSnapshots, ok \in BOOLEAN : Snapshot(snap, ok)
    \/ \E ok \in BOOLEAN : Click(ok)
    \/ \E r1 \in Reads(NameTexts), r2 \in Reads(NameTexts),
          r3 \in Reads(NameTexts) : ExtractName(r1, r2, r3)
    \/ \E r \in Reads(AddressTexts) : ExtractAddress(r)
    \/ \E r \in Reads(WebsiteTexts) : ExtractWebsite(r)
    \/ \E r \in Reads(PhoneTexts) : ExtractPhone(r)
    \/ \E ok \in BOOLEAN : EmailOpen(ok)
    \/ \E r \in EmailResults : EmailBody(r)
    \/ \E ok \in BOOLEAN, gone \in BOOLEAN : EmailClose(ok, gone)
    \/ Add
    \/ \E ok \in BOOLEAN : Export(ok)

Spec == Init /\ [][Next]_vars

\* the same, for a run that goes on as long as it has a step to take: each
\* browser operation returns or fails within its timeout
SpecLive == Spec /\ WF_vars(Next)

----------------------------------------------------------------------------
(* The query parser alone: lines 114-116 on many queries *)

Chunks == { << "a" >>, << "b" >>, << " " >>, << "i", "n" >>, InSep }

QueryShops == << "s", "h", "o", "p", "s", " ", "i", "n", " ",
                 "i", "n", "n", "s", " ", "i", "n", " ",
                 "L", "o", "n", "d", "o", "n" >>
QueryParis == << "r", "e", "s", "t", "a", "u", "r", "a", "n", "t", "s",
                 " ", "i", "n", " ", "P", "a", "r", "i", "s" >>
QueryBookstores == << "b", "o", "o", "k", "s", "t", "o", "r", "e", "s" >>

ParserQueries ==
    { Concat(cs) : cs \in UNION { [1..n -> Chunks] : n \in 0..MaxChunks } }
    \cup { QueryShops, QueryParis, QueryBookstores }

InitParser ==
    /\ pc = "parse"
    /\ query \in ParserQueries
    /\ total = 1
    /\ hashseed = 0
    /\ category = None
    /\ location = None
    /\ loops = 0
    /\ previously_counted = 0
    /\ count_now = 0
    /\ hist = << >>
    /\ anchors = << >>
    /\ listings = << >>
    /\ idx = 0
    /\ business = NewBusiness
    /\ business_list = << >>
    /\ seen = { }
    /\ offered = << >>
    /\ origin = << >>
    /\ attempts = << >>
    /\ skipped = << >>
    /\ email = Empty
    /\ open_pages = 0
    /\ close_raised = 0
    /\ email_calls = 0
    /\ view = NoView
    /\ exported = 0
    /\ outcome = "running"
    /\ error = ""

NextParser == ParseQuery

SpecParser == InitParser /\ [][NextParser]_vars

----------------------------------------------------------------------------
(* The BusinessList alone: created empty, then add_business only *)

StrBC == << "b", ".", "c" >>
StrAddr2 == << "2", " ", "L", "a" >>
QueryB == << "b" >>

\* address, email, category, location: fields the hash does not read
OtherFields == { << StrAddr, Empty, ParseCategory(QueryAinB), ParseLocation(QueryAinB) >>,
                 << StrAddr2, StrMail, ParseCategory(QueryB), ParseLocation(QueryB) >> }

DedupRecords ==
    { [ name |-> n, address |-> o[1], domain |-> d, website |-> w,
        phone_number |-> ph, email |-> o[2], category |-> o[3],
        location |-> o[4] ] :
      n \in { None, StrA }, d \in { None, StrAC, StrBC },
      w \in { Empty, NormalizeWebsite(StrAC) }, ph \in { Empty, StrPhone },
      o \in OtherFields }

InitDedup ==
    /\ pc = "dedup"
    /\ query = Empty
    /\ total = 1
    /\ hashseed \in 0..MaxSeed
    /\ category = None
    /\ location = None
    /\ loops = 0
    /\ previously_counted = 0
    /\ count_now = 0
    /\ hist = << >>
    /\ anchors = << >>
    /\ listings = << >>
    /\ idx = 0
    /\ business = NewBusiness
    /\ business_list = << >>
    /\ seen = { }
    /\ offered = << >>
    /\ origin = << >>
    /\ attempts = << >>
    /\ skipped = << >>
    /\ email = Empty
    /\ open_pages = 0
    /\ close_raised = 0
    /\ email_calls = 0
    /\ view = NoView
    /\ exported = 0
    /\ outcome = "running"
    /\ error = ""

\* one call business_list.add_business(b)
DedupAdd(b) ==
    /\ pc = "dedup"
    /\ Len(offered) < MaxAdds
    /\ AddBusiness(b, Len(offered) + 1)
    /\ UNCHANGED << pc, view, close_raised, email_calls, query, total, category, location, hashseed, loops,
                    previously_counted, count_now, hist, anchors, listings,
                    idx, business, attempts, skipped, email, open_pages,
                    exported, outcome, error >>

NextDedup == \E b \in DedupRecords : DedupAdd(b)

SpecDedup == InitDedup /\ [][NextDedup]_vars

----------------------------------------------------------------------------
(* The scroll loop alone: lines 141-151 against a counter of anchors *)

ScrollCounts == { 0, 5, 12, 20, 25 }
ScrollTotals == { 12, 21, 200 }

\* the last HistLen elements of h
Recent(h) == IF Len(h) <= HistLen THEN h
             ELSE SubSeq(h, Len(h) - HistLen + 1, Len(h))

InitScroll ==
    /\ pc = "scroll"
    /\ query = QueryAinB
    /\ total \in ScrollTotals
    /\ hashseed = 0
    /\ category = ParseCategory(QueryAinB)
    /\ location = ParseLocation(QueryAinB)
    /\ loops = 0
    /\ previously_counted = 0
    /\ count_now = 0
    /\ hist = << >>
    /\ anchors = << >>
    /\ listings = << >>
    /\ idx = 0
    /\ business = NewBusiness
    /\ business_list = << >>
    /\ seen = { }
    /\ offered = << >>
    /\ origin = << >>
    /\ attempts = << >>
    /\ skipped = << >>
    /\ email = Empty
    /\ open_pages = 0
    /\ close_raised = 0
    /\ email_calls = 0
    /\ view = NoView
    /\ exported = 0
    /\ outcome = "running"
    /\ error = ""

NextScroll ==
    \E c \in ScrollCounts, r \in { "ok", "wheel", "count" } :
        /\ ScrollIteration(c, r)
        /\ hist' = IF r = "ok" THEN Recent(Append(hist, c)) ELSE hist

SpecScroll == InitScroll /\ [][NextScroll]_vars

----------------------------------------------------------------------------
(* One listing: the body of the loop of lines 168-204 on one detail view,
   holding what each locator of the view gives *)

StrAcme == << "A", "c", "m", "e", " ", "C", "o" >>
StrPaddedA == << " ", "A", " " >>
StrHttpBC == << "h", "t", "t", "p", ":", "/", "/", "b", ".", "c" >>
StrHttpsBC == << "h", "t", "t", "p", "s", ":", "/", "/", "b", ".", "c" >>
StrHttpDotC == << "h", "t", "t", "p", ".", "c" >>

\* the element is there with text t, but reading it raises (detached, timeout)
Detached(t) == [kind |-> "raise", text |-> t]

ViewNameReads == { NoMatch, Detached(StrA), Element(Empty),
                   Element(StrPaddedA), Element(StrAcme) }
ViewAddressReads == { NoMatch, Detached(StrAddr), Element(StrAddr) }
ViewWebsiteReads == { NoMatch, Detached(StrAC), Element(StrAC),
                      Element(StrHttpBC), Element(StrHttpsBC),
                      Element(StrHttpDotC) }
ViewPhoneReads == { NoMatch, Detached(StrPhone), Element(StrPhone) }

\* the detail views: what the locators of lines 161-166 and "h1" give
Views == [ n1 : ViewNameReads, n2 : ViewNameReads, n3 : ViewNameReads,
           addr : ViewAddressReads, web : ViewWebsiteReads,
           phone : ViewPhoneReads ]

\* the state at line 168 with one listing found; the observation of the
\* discovery loop is not carried over
InitListing ==
    /\ pc = "click"
    /\ query = QueryAinB
    /\ total = 1
    /\ hashseed = 0
    /\ category = ParseCategory(QueryAinB)
    /\ location = ParseLocation(QueryAinB)
    /\ loops = 0
    /\ previously_counted = 0
    /\ count_now = 0
    /\ hist = << >>
    /\ anchors = << 1 >>
    /\ listings = << 1 >>
    /\ idx = 1
    /\ business = NewBusiness
    /\ business_list = << >>
    /\ seen = { }
    /\ offered = << >>
    /\ origin = << >>
    /\ attempts = << >>
    /\ skipped = << >>
    /\ email = Empty
    /\ open_pages = 0
    /\ close_raised = 0
    /\ email_calls = 0
    /\ view \in Views
    /\ exported = 0
    /\ outcome = "running"
    /\ error = ""

NextDetail ==
    \/ \E ok \in BOOLEAN : Click(ok)
    \/ ExtractName(view.n1, view.n2, view.n3)
    \/ ExtractAddress(view.addr)
    \/ ExtractWebsite(view.web)
    \/ ExtractPhone(view.phone)
    \/ \E ok \in BOOLEAN : EmailOpen(ok)
    \/ \E r \in EmailResults : EmailBody(r)
    \/ \E ok \in BOOLEAN, gone \in BOOLEAN : EmailClose(ok, gone)
    \/ Add
    \/ \E ok \in BOOLEAN : Export(ok)

SpecListing == InitListing /\ [][NextDetail]_vars

----------------------------------------------------------------------------
(* Properties *)

Range(f) == { f[i] : i \in DOMAIN f }

KeyOf(b) == HashFields(b)

\* s cut at the leftmost sep only: one part when there is none, else two
SplitOnce(s, sep) ==
    LET i == Find(s, sep) IN
    IF i = 0 THEN << s >>
    ELSE << SubSeq(s, 1, i - 1), From(s, i + Len(sep)) >>

\* C1 (SpecParser): the query is split at the first " in " only: category
\* is the (trimmed) text before it, or the whole query when there is none,
\* and location is all the (trimmed) text after it, or empty.
C1_SplitAtFirstSeparator ==
    pc = "launch" =>
        LET two == SplitOnce(query, InSep) IN
        /\ category = Strip(two[1])
        /\ location = IF Len(two) > 1 THEN Strip(two[2]) ELSE Empty

\* C2 (SpecDedup): no two records of business_list have equal Identity Keys.
C2_NoTwoRecordsShareKey ==
    \A i, j \in 1..Len(business_list) :
        i < j => KeyOf(business_list[i]) # KeyOf(business_list[j])

\* C2 witness: a second, different record with the key of the first was
\* offered and was not appended.
C2_DuplicateKeyDiscarded ==
    /\ Len(offered) = 2
    /\ offered[1].rec # offered[2].rec
    /\ KeyOf(offered[1].rec) = KeyOf(offered[2].rec)
    /\ business_list = << offered[1].rec >>

\* C3 (SpecDedup): add appends a record if and only if no record offered
\* before it has an equal Identity Key.
C3_AppendedIffKeyUnseen ==
    \A n \in 1..Len(offered) :
        (offered[n].ord \in Range(origin))
            <=> (\A m \in 1..(n - 1) :
                    KeyOf(offered[m].rec) # KeyOf(offered[n].rec))

\* C4 as stated (SpecDedup): two records with the same name and the same
\* domain, added to an empty BusinessList, leave one record, the first.
C4_SameNameAndDomainCollapse ==
    ( /\ Len(offered) = 2
      /\ offered[1].rec.name = offered[2].rec.name
      /\ offered[1].rec.domain = offered[2].rec.domain )
    => business_list = << offered[1].rec >>

\* C4 as amended (SpecDedup): two records with the same name, domain,
\* website and phone_number, added to an empty BusinessList, leave one
\* record, the first, whatever their other fields.
C4_SameKeyFieldsCollapse ==
    ( /\ Len(offered) = 2
      /\ offered[1].rec.name = offered[2].rec.name
      /\ offered[1].rec.domain = offered[2].rec.domain
      /\ offered[1].rec.website = offered[2].rec.website
      /\ offered[1].rec.phone_number = offered[2].rec.phone_number )
    => business_list = << offered[1].rec >>

\* C4 witness: the two records agree on the four fields and differ in
\* address, email, category and location.
C4_SecondOfSameBusinessDropped ==
    /\ Len(offered) = 2
    /\ offered[1].rec.name = offered[2].rec.name
    /\ Truthy(offered[1].rec.domain)
    /\ offered[1].rec.domain = offered[2].rec.domain
    /\ offered[1].rec.website = offered[2].rec.website
    /\ offered[1].rec.phone_number = offered[2].rec.phone_number
    /\ offered[1].rec.address # offered[2].rec.address
    /\ offered[1].rec.email # offered[2].rec.email
    /\ offered[1].rec.category # offered[2].rec.category
    /\ offered[1].rec.location # offered[2].rec.location
    /\ business_list = << offered[1].rec >>

C5_State ==
    /\ Len(origin) = Len(business_list)
    /\ \A i, j \in 1..Len(business_list) : i < j => origin[i] < origin[j]
    /\ \A i \in 1..Len(business_list) :
          /\ \E n \in 1..Len(offered) :
                /\ offered[n].ord = origin[i]
                /\ offered[n].rec = business_list[i]
          /\ \A n \in 1..Len(offered) :
                KeyOf(offered[n].rec) = KeyOf(business_list[i])
                    => offered[n].ord >= origin[i]

C5_Step ==
    /\ Len(business_list') >= Len(business_list)
    /\ SubSeq(business_list', 1, Len(business_list)) = business_list

\* C5 (Spec): the records of the result are in the order of the listings
\* that produced them, each is the candidate of the earliest listing with
\* its Identity Key, and a step never moves or changes a record already in
\* the result.
C5_ResultInDiscoveryOrder == []C5_State /\ [][C5_Step]_vars

\* C5 witness: a run that returned two records, of listings 1 and 2.
C5_TwoRecordsReturned ==
    /\ pc = "returned"
    /\ Len(business_list) = 2
    /\ origin = << 1, 2 >>

ListingPcs == { "click", "name", "address", "website", "phone",
                "email_open", "email_body", "email_close", "add" }

C6_State ==
    /\ Len(attempts) <= Len(listings)
    /\ attempts = SubSeq(listings, 1, Len(attempts))
    /\ \A k \in Range(skipped) :
          /\ k \notin Range(origin)
          /\ \A n \in 1..Len(offered) : offered[n].ord # k
    /\ Len(skipped) + Len(offered)
          = Len(attempts) - (IF pc \in ListingPcs \ { "click" } THEN 1 ELSE 0)
    /\ (pc \in { "export", "returned" } \/ error = "export")
          => attempts = listings
    /\ (pc = "raised" /\ attempts # << >>) => error = "export"

C6_Step == skipped' # skipped => UNCHANGED << business_list, seen >>

\* C6 (Spec): the listings are activated once each, in order; a listing
\* whose processing raises offers no record and leaves the result set as it
\* was; the loop goes on to the last listing and then to the export.
C6_FailureIsolation == []C6_State /\ [][C6_Step]_vars

\* C6 witness: the first listing raised, the second gave the only record,
\* and the run returned.
C6_SecondListingSurvivesFirst ==
    /\ pc = "returned"
    /\ skipped = << 1 >>
    /\ origin = << 2 >>
    /\ Len(business_list) = 1

\* C7 as stated (Spec): the pipeline ends with an error only when the
\* snapshot held no anchor.
C7_OnlyNoListingsRaises == outcome = "raised" => error = "NoListings"

UncaughtBeforeListings ==
    { "launch", "goto", "search", "wheel", "count", "snapshot" }

\* C7 as amended (Spec): the pipeline ends with an error when the snapshot
\* held no anchor, or when a step outside the two try blocks raised (the
\* launch, the navigation, the search, a scroll, a recount, the snapshot
\* before any listing; the export after all of them), and never because of
\* the hover, a listing or the email discovery.
C7_OnlyUncaughtStepsRaise ==
    outcome = "raised" =>
        \/ error = "NoListings" /\ anchors = << >>
        \/ error \in UncaughtBeforeListings /\ attempts = << >>
        \/ error = "export" /\ attempts = listings

\* C7 witness: every listing raised and the run returned a file all the same.
C7_AllListingsFailedYetReturned ==
    /\ outcome = "returned"
    /\ Len(listings) = 2
    /\ skipped = listings
    /\ exported = 1

LastRecount == hist[Len(hist)]

InLoop == pc \in { "scroll", "snapshot" } /\ loops >= 1

\* C9 as stated (SpecScroll): after each iteration the loop has stopped
\* exactly when the recount reached total, or equals the recount of the
\* iteration before, or the iteration was the 50th.
C9_StopsOnTotalOrRepeatOrCap ==
    InLoop =>
        ( pc = "snapshot"
          <=> \/ LastRecount >= total
              \/ Len(hist) >= 2 /\ LastRecount = hist[Len(hist) - 1]
              \/ loops = max_scroll_loops )

\* the recount of the iteration before, 0 before the first iteration
PrevRecount == IF Len(hist) >= 2 THEN hist[Len(hist) - 1] ELSE 0

\* C9 as amended (SpecScroll): the same, with 0 for the recount before the
\* first iteration; and no more than 50 iterations are made.
C9_StopsOnTotalOrStallOrCap ==
    /\ loops <= max_scroll_loops
    /\ InLoop =>
        ( pc = "snapshot"
          <=> \/ LastRecount >= total
              \/ LastRecount = PrevRecount
              \/ loops = max_scroll_loops )

\* C9 witness: the loop ended by the cap alone.
C9_StoppedByCap ==
    /\ pc = "snapshot"
    /\ loops = max_scroll_loops
    /\ LastRecount < total
    /\ LastRecount # PrevRecount

Counter == << 5, 12, 20, 20 >>

IsPrefix(a, b) == Len(a) <= Len(b) /\ a = SubSeq(b, 1, Len(a))

\* C10 as stated (SpecScroll): with recounts 5, 12, 20 and total above 20,
\* the loop has stopped at the third iteration.
C10_HaltsAtThird ==
    (total > 20 /\ loops = 3 /\ hist = SubSeq(Counter, 1, 3))
        => pc = "snapshot"

\* C10 as amended (SpecScroll): with recounts 5, 12, 20, 20 and total above
\* 20, the loop goes on after the first three iterations and stops at the
\* fourth, with a count of 20, well before the cap.
C10_HaltsAtFourth ==
    ( /\ total > 20
      /\ loops >= 1
      /\ loops = Len(hist)
      /\ IsPrefix(hist, Counter) )
    => /\ count_now = LastRecount
       /\ pc = (IF loops = 4 THEN "snapshot" ELSE "scroll")
       /\ loops < max_scroll_loops

\* C10 witness: the fourth recount stopped the loop at 20.
C10_StalledAtTwenty ==
    /\ total > 20
    /\ hist = Counter
    /\ loops = 4
    /\ pc = "snapshot"
    /\ count_now = 20

\* C11 (Spec): the listings are the first min(total, N) anchors of the
\* snapshot, in its order; the listings activated are among them, all of
\* them once the loop has ended; neither the activations nor the records of
\* the result are more than total.
C11_ListingsAreFirstTotalAnchors ==
    LET n == IF total <= Len(anchors) THEN total ELSE Len(anchors) IN
    /\ anchors # << >> =>
          /\ Len(listings) = n
          /\ \A i \in 1..n : listings[i] = anchors[i]
    /\ Len(attempts) <= n
    /\ \A i \in 1..Len(attempts) : attempts[i] = anchors[i]
    /\ (pc \in { "export", "returned" } \/ error = "export")
          => Len(attempts) = n
    /\ Len(attempts) <= total
    /\ Len(business_list) <= total

\* C11 witness: the snapshot held more anchors than total, and the run
\* returned after activating the first total of them.
C11_SnapshotTruncated ==
    /\ pc = "returned"
    /\ Len(anchors) > total
    /\ attempts = SubSeq(anchors, 1, total)
    /\ Len(business_list) = total

\* the positions inside scrape_email_from_website
EmailPcs == { "email_open", "email_body", "email_close" }

\* a step of the email discovery that keeps the listing going
EmailStepIsSoft ==
    (pc \in EmailPcs) =>
       /\ skipped' = skipped
       /\ pc' \in { "email_body", "email_close", "add" }

\* C12 (Spec): a failure at any step of the email discovery, opening and
\* closing the page included, is swallowed: the step neither skips the listing
\* nor ends the run, and the record goes on to be added.
C12_EmailDiscoveryIsSoft == [][EmailStepIsSoft]_vars

\* the pages an email discovery in progress holds: one between new_page and
\* close, none elsewhere
InEmail == IF pc \in { "email_body", "email_close" } THEN 1 ELSE 0

SchemeHttp == << "h", "t", "t", "p", ":", "/", "/" >>
SchemeHttps == << "h", "t", "t", "p", "s", ":", "/", "/" >>
IsAbsoluteUrl(u) == StartsWith(u, SchemeHttp) \/ StartsWith(u, SchemeHttps)

\* C14 (SpecListing), as stated: whatever website text the view gives, a
\* record of the result set with a non-empty website has an absolute URL
\* there, one that begins with "http://" or "https://"; a bare domain has got
\* the prefix "https://www.", also when its text begins with the letters http.
C14_WebsiteIsAbsoluteUrl ==
    \A i \in 1..Len(business_list) :
        Truthy(business_list[i].website) =>
            IsAbsoluteUrl(business_list[i].website)

\* reading the locator failed: nothing matched, or the access raised
Failed(r) == r.kind # "text"

\* the positions of the loop body after each field has been read
AfterName == { "address", "website", "phone", "email_open", "email_body",
               "email_close", "add" }
AfterAddress == AfterName \ { "address" }
AfterWebsite == AfterAddress \ { "website" }
AfterPhone == AfterWebsite \ { "phone" }

\* the fields of record b that failed to be read from the view are empty
FailedFieldsEmpty(b) ==
    /\ Failed(view.addr) => b.address = Empty
    /\ Failed(view.web) => b.website = Empty /\ b.domain = None
    /\ Failed(view.phone) => b.phone_number = Empty
    /\ (Failed(view.n1) /\ Failed(view.n2) /\ Failed(view.n3)) => b.name = Empty

\* the fields of record b that were read from the view hold its text
ReadFieldsKept(b) ==
    /\ ~Failed(view.addr) => b.address = Strip(view.addr.text)
    /\ ~Failed(view.phone) => b.phone_number = Strip(view.phone.text)
    /\ ~Failed(view.web) => b.domain = Strip(view.web.text)

\* reading a field neither gives the listing up nor ends the run
FieldReadGoesOn ==
    (pc \in { "name", "address", "website", "phone" }) =>
       /\ skipped' = skipped
       /\ pc' \in AfterName
       /\ error' = error

\* C15 (SpecListing): the Field Extractor never raises: a locator that is not
\* found or whose reading raises gives the empty string, the step goes on to
\* the next field, and the record is handed to the Deduplicator with that
\* field empty and its other fields as read.
C15_FieldExtractorNeverRaises ==
    /\ [](/\ (pc \in AfterName /\ Failed(view.n1) /\ Failed(view.n2)
                 /\ Failed(view.n3)) => business.name = Empty
          /\ (pc \in AfterAddress /\ Failed(view.addr)) =>
                 business.address = Empty
          /\ (pc \in AfterWebsite /\ Failed(view.web)) =>
                 business.website = Empty
          /\ (pc \in AfterPhone /\ Failed(view.phone)) =>
                 business.phone_number = Empty
          /\ \A i \in 1..Len(offered) :
                 FailedFieldsEmpty(offered[i].rec) /\ ReadFieldsKept(offered[i].rec))
    /\ [][FieldReadGoesOn]_vars

\* C15 witness: the address element is there but reading it raised; the record
\* is in the result with its name and an empty address.
C15_RecordKeptWithEmptyAddress ==
    /\ pc = "returned"
    /\ view.addr = Detached(StrAddr)
    /\ view.n1 = Element(StrAcme)
    /\ Len(business_list) = 1
    /\ business_list[1].name = StrAcme
    /\ business_list[1].address = Empty

\* the text a locator gives after trimming, empty when it gives none
Trimmed(r) == IF Failed(r) THEN Empty ELSE Strip(r.text)

\* the first non-empty text of the chain primary, secondary, generic heading
FirstNonEmptyName ==
    IF Trimmed(view.n1) # Empty THEN Trimmed(view.n1)
    ELSE IF Trimmed(view.n2) # Empty THEN Trimmed(view.n2)
    ELSE IF Trimmed(view.n3) # Empty THEN Trimmed(view.n3)
    ELSE Empty

\* C16 (SpecListing): the name is the trimmed text of the first of the primary,
\* the secondary and the generic heading that gives a non-empty one, and the
\* empty string when none does, in the record being built and in the record
\* handed on.
C16_NameIsFirstNonEmptyHeading ==
    /\ pc \in AfterName => business.name = FirstNonEmptyName
    /\ \A i \in 1..Len(offered) : offered[i].rec.name = FirstNonEmptyName

\* C16 witness: the primary heading is empty, the secondary reads "Acme Co",
\* the generic one reads something else; the record's name is "Acme Co".
C16_SecondaryHeadingWins ==
    /\ pc = "returned"
    /\ view.n1 = Element(Empty)
    /\ view.n2 = Element(StrAcme)
    /\ view.n3 = Element(StrPaddedA)
    /\ Len(business_list) = 1
    /\ business_list[1].name = StrAcme

\* C17 (Spec): the email discovery is called once for a listing whose website
\* is non-empty and not at all for one whose website is empty, within that
\* listing's own step; so a record with a non-empty email has a non-empty
\* website and a non-empty domain.
C17_EmailGatedOnWebsite ==
    /\ email_calls <= 1
    /\ pc \in EmailPcs => Truthy(business.website) /\ Len(attempts) = idx
    /\ pc \in { "email_body", "email_close" } => email_calls = 1
    /\ pc \in { "click", "name", "address", "website", "phone", "email_open" }
          => email_calls = 0
    /\ pc = "add" =>
          /\ email_calls = IF Truthy(business.website) THEN 1 ELSE 0
          /\ ~Truthy(business.website) => business.email = Empty
    /\ \A i \in 1..Len(offered) :
          Truthy(offered[i].rec.email) =>
              Truthy(offered[i].rec.website) /\ Truthy(offered[i].rec.domain)
    /\ \A i \in 1..Len(business_list) :
          Truthy(business_list[i].email) =>
              Truthy(business_list[i].website) /\ Truthy(business_list[i].domain)

\* C17 witness: a run returned two records, the first with a website and the
\* email found on it, the second without a website and without an email.
C17_OneWithEmailOneWithout ==
    /\ pc = "returned"
    /\ Len(business_list) = 2
    /\ business_list[1].website = HttpsWww \o StrAC
    /\ business_list[1].email = StrMail
    /\ business_list[2].website = Empty
    /\ business_list[2].email = Empty

\* the run of scrape_businesses_core is over
Terminated == pc \in { "raised", "returned" }

\* C18 (SpecLive), as stated: the scroll loop makes at most 50 iterations, at
\* most total listings are activated, and a run that is over has raised the
\* zero-listings error or has exported and returned.
C18_EndsByNoListingsOrExport ==
    /\ loops <= max_scroll_loops
    /\ Len(attempts) <= total
    /\ Terminated =>
          \/ pc = "raised" /\ error = "NoListings"
          \/ pc = "returned" /\ exported = 1

\* C18 (SpecLive), amended: every run is over in the end, after at most 50
\* iterations of the scroll loop and at most total activations, having raised
\* the zero-listings error, or the error of a step outside the try blocks, or
\* having exported and returned.
C18_RunTerminates ==
    /\ <>Terminated
    /\ [](/\ loops <= max_scroll_loops
          /\ Len(attempts) <= total
          /\ Terminated =>
                \/ pc = "raised" /\ error = "NoListings"
                \/ pc = "raised"
                      /\ error \in UncaughtBeforeListings \cup { "export" }
                \/ pc = "returned" /\ exported = 1 /\ Len(attempts) = Len(listings))

\* C18 witness: the scroll loop is left at its fiftieth iteration with fewer
\* anchors counted than asked for.
C18_LoopLeftAtTheCap ==
    /\ pc = "snapshot"
    /\ loops = max_scroll_loops
    /\ count_now < total

\* the positions before the result set exists (lines 114-158)
BeforeResultSet ==
    { "parse", "launch", "goto", "search", "hover", "scroll", "snapshot" }

\* a step keeps the records there are, in place, and the keys seen; once the
\* export has begun or the run is over, it adds none either
ResultSetGrowsUntilExport ==
    /\ IsPrefix(business_list, business_list')
    /\ seen \subseteq seen'
    /\ (pc \in { "export", "returned", "raised" }) =>
          (business_list' = business_list /\ seen' = seen /\ offered' = offered)

\* C19 (Spec): the result set starts empty, and only once the discovery has
\* given a non-empty listing list; its length and its seen set never shrink;
\* the export happens once, only after every listing of the cut list has been
\* attempted; and no record is added or changed once the export has begun.
C19_ResultSetLifecycle ==
    /\ [](/\ pc \in BeforeResultSet =>
                (business_list = << >> /\ seen = { } /\ offered = << >>)
          /\ (pc = "click" /\ attempts = << >>) =>
                (listings # << >> /\ business_list = << >> /\ seen = { })
          /\ offered # << >> => listings # << >>
          /\ exported <= 1
          /\ pc = "returned" <=> exported = 1
          /\ (pc = "export" \/ exported = 1) => attempts = listings)
    /\ [][ResultSetGrowsUntilExport]_vars

\* C19 witness: both listings were attempted, the second record was a
\* duplicate, and the one record was exported, once.
C19_ExportedAfterBothListings ==
    /\ pc = "returned"
    /\ exported = 1
    /\ Len(listings) = 2
    /\ attempts = listings
    /\ Len(offered) = 2
    /\ Len(business_list) = 1
    /\ Cardinality(seen) = 1

\* an add whose record's hash is in the seen set leaves list and set alone
DiscardedAddChangesNothing ==
    (/\ Len(offered') = Len(offered) + 1
     /\ BusinessHash(hashseed, offered'[Len(offered')].rec) \in seen) =>
        (business_list' = business_list /\ seen' = seen)

\* C20 (SpecDedup): the seen set is exactly the set of the hashes of the
\* records in business_list, and has as many members as the list has records;
\* an add that is discarded leaves both the list and the set unchanged.
C20_SeenSetConsistency ==
    /\ [](/\ seen = { BusinessHash(hashseed, business_list[i]) :
                         i \in 1..Len(business_list) }
          /\ Cardinality(seen) = Len(business_list))
    /\ [][DiscardedAddChangesNothing]_vars

\* C20 witness: two different records were offered, the second was discarded,
\* and the seen set holds the one hash of the one record kept.
C20_OneKeptOneDiscarded ==
    /\ Len(offered) = 2
    /\ offered[1].rec # offered[2].rec
    /\ business_list = << offered[1].rec >>
    /\ seen = { BusinessHash(hashseed, offered[1].rec) }

====
